---- MODULE Spec2Model ----
(***************************************************************************)
(* AuditSync-Pro: the document-processing and comparison pipeline.         *)
(*                                                                         *)
(* The persistent store (audit_reports, comparisons) is modelled as it is  *)
(* committed; every service call is a task that runs from one suspension   *)
(* point (an await on a collaborator) to the next in one step.  The        *)
(* collaborators (embedding model, language model, text extraction, the    *)
(* final commit) answer nondeterministically.                              *)
(***************************************************************************)
EXTENDS Integers, Sequences, FiniteSets, TLC

VARIABLES
    docs,      \* audit_reports table: sequence of rows, id = position
    cmps,      \* comparisons table: sequence of rows, id = position
    tasks,     \* service calls in flight: sequence of call frames
    last,      \* what the call that returned last returned
    files      \* upload directory: file name -> content hash stored under it

vars == <<docs, cmps, tasks, last, files>>

(***************************************************************************)
(* Bounds of the model.                                                    *)
(***************************************************************************)
MaxDocs == 2        \* rows the audit_reports table may hold
MaxTasks == 2       \* service calls in flight at a time
MaxCmps == 1        \* rows the comparisons table may hold

None == "none"

Hashes == {"h1", "h2"}              \* SHA-256 digests of the uploaded contents
Companies == {"c1", "c2"}
Texts == {"", "text"}               \* extracted raw text: empty or not
EmbVecs == {<<1, 0>>, <<-1, 0>>}    \* vectors the embedding model may return
FileNames == {"a.pdf"}

DocIds == 1..MaxDocs
CmpIds == 1..MaxCmps

\* a NULL embeddings column (and the empty list, equally falsy in Python)
NoEmb == <<>>

\* a NULL JSON column
NoJson == <<>>

\* a NULL similarity_score; a stored score n (in thousandths) is <<n>>
NoScore == <<>>
Score(n) == <<n>>

\* Python truthiness of raw_text (None and '' are falsy) and of embeddings
HasText(t) == t # None /\ t # ""
HasEmb(e) == e # NoEmb

(***************************************************************************)
(* Rows.                                                                   *)
(***************************************************************************)
\* models.AuditReport as process_uploaded_report constructs it
NewReport(company, hash, text) ==
    [company |-> company, hash |-> hash, status |-> "processing",
     raw_text |-> text, embeddings |-> NoEmb, key_findings |-> None,
     risk_categories |-> None, compliance_scores |-> None,
     structured_data |-> NoJson, processed_at |-> FALSE,
     file_name |-> None]

\* database_models.AuditReport as process_upload constructs it
NewUpload(company, hash, name) ==
    [company |-> company, hash |-> hash, status |-> "pending",
     raw_text |-> None, embeddings |-> NoEmb, key_findings |-> None,
     risk_categories |-> None, compliance_scores |-> None,
     structured_data |-> NoJson, processed_at |-> FALSE,
     file_name |-> name]

\* models.Comparison as create_comparison constructs it
NewComparison(company, src, tgt) ==
    [company |-> company, source |-> src, target |-> tgt,
     status |-> "pending", similarity_score |-> NoScore,
     holistic |-> None, section_comparisons |-> None,
     materiality_assessment |-> None, completed_at |-> FALSE]

IsPending(s) == s = "pending"
IsProcessed(s) == s \in {"processed", "completed"}
IsFailed(s) == s \in {"error", "failed"}

(***************************************************************************)
(* Call frames.                                                            *)
(***************************************************************************)
Frame(op, pc, id) ==
    [op |-> op, pc |-> pc, id |-> id,
     emb |-> NoEmb, findings |-> None, mw |-> None,
     srcEmb |-> NoEmb, tgtEmb |-> NoEmb, result |-> None,
     sim |-> NoScore, company |-> None, name |-> None, arg |-> None]

\* the value a call returns (or the error it raises): the row it names and
\* what the call was given (arg: for an upload the fingerprint of its bytes,
\* for a reprocess the status the row had when the call began)
RetOf(op, id, res, arg) == [op |-> op, id |-> id, res |-> res, arg |-> arg]

Ret(op, id, res) == RetOf(op, id, res, None)

Remove(seq, k) == SubSeq(seq, 1, k - 1) \o SubSeq(seq, k + 1, Len(seq))

CanCall == Len(tasks) < MaxTasks

\* a call that runs to its return without waiting
Return(op, id, res) ==
    /\ last' = Ret(op, id, res)
    /\ UNCHANGED tasks

\* a call that reaches its first suspension point
Begin(f) ==
    /\ tasks' = Append(tasks, f)
    /\ UNCHANGED last

\* call k goes on to its next suspension point
Continue(k, f) ==
    /\ tasks' = [tasks EXCEPT ![k] = f]
    /\ UNCHANGED last

\* call k returns
Finish(k, res) ==
    /\ tasks' = Remove(tasks, k)
    /\ last' = RetOf(tasks[k].op, tasks[k].id, res, tasks[k].arg)

\* a background task ends: nothing awaits its result
EndTask(k) ==
    /\ tasks' = Remove(tasks, k)
    /\ UNCHANGED last

(***************************************************************************)
(* ReportProcessingService.process_uploaded_report                         *)
(***************************************************************************)
\* an except clause that marks every row still being processed
ReportErrorHandlerAnyRow(id, f) ==
    docs' = [i \in 1..Len(docs) |->
                IF i = id \/ docs[i].status = "processing"
                THEN [docs[i] EXCEPT !.status = "error"]
                ELSE docs[i]]

\* the except clause: status 'error' and a commit, which also writes the
\* attributes assigned so far
ReportErrorHandler(id, f) ==
    docs' = [docs EXCEPT ![id] =
                [@ EXCEPT !.status = "error",
                          !.embeddings = IF HasEmb(f.emb) THEN f.emb ELSE @,
                          !.key_findings = IF f.findings # None THEN f.findings ELSE @]]

\* steps 1-2: process_document and the row, committed as 'processing'
ProcessUploadedReport(E) ==
    /\ CanCall
    /\ \E valid \in BOOLEAN, company \in E.companies, hash \in E.hashes,
          text \in E.texts :
        IF ~valid
        THEN /\ Return("process", 0, "invalid")
             /\ UNCHANGED <<docs, cmps, files>>
        ELSE /\ Len(docs) < MaxDocs
             /\ docs' = Append(docs, NewReport(company, hash, text))
             /\ Begin(Frame("process", "embed", Len(docs) + 1))
             /\ UNCHANGED <<cmps, files>>

(***************************************************************************)
(* ReportProcessingService.reprocess_report                                *)
(***************************************************************************)
\* lines 183-196: the row is looked up and committed as 'processing'
ReprocessReport ==
    /\ CanCall
    /\ \E id \in DocIds :
        IF id > Len(docs)
        THEN /\ Return("reprocess", id, "notfound")
             /\ UNCHANGED <<docs, cmps, files>>
        ELSE IF ~HasText(docs[id].raw_text)
        THEN /\ last' = RetOf("reprocess", id, "notext", docs[id].status)
             /\ UNCHANGED <<docs, tasks, cmps, files>>
        ELSE /\ docs' = [docs EXCEPT ![id].status = "processing"]
             /\ Begin([Frame("reprocess", "embed", id) EXCEPT
                         !.arg = docs[id].status])
             /\ UNCHANGED <<cmps, files>>

(***************************************************************************)
(* The steps both pipelines share.                                         *)
(***************************************************************************)
\* generate_embeddings returns a vector or raises; process_uploaded_report
\* then commits 'error', reprocess_report only returns the error
GenerateEmbeddings(E, k) ==
    /\ tasks[k].op \in {"process", "reprocess"} /\ tasks[k].pc = "embed"
    /\ \E ok \in BOOLEAN, emb \in E.vecs :
        IF ok
        THEN /\ Continue(k, [tasks[k] EXCEPT !.pc = "findings", !.emb = emb])
             /\ UNCHANGED docs
        ELSE /\ IF tasks[k].op = "process"
                THEN ReportErrorHandler(tasks[k].id, tasks[k])
                ELSE UNCHANGED docs
             /\ Finish(k, "error")
    /\ UNCHANGED <<cmps, files>>

\* extract_key_findings returns the parsed findings or an error dict
ExtractKeyFindings(E, k) ==
    /\ tasks[k].op \in {"process", "reprocess"} /\ tasks[k].pc = "findings"
    /\ \E out \in E.llm :
        Continue(k, [tasks[k] EXCEPT !.pc = "weaknesses", !.findings = out])
    /\ UNCHANGED <<docs, cmps, files>>

\* detect_material_weaknesses returns a success dict or an error dict
DetectMaterialWeaknesses(E, k) ==
    /\ tasks[k].pc = "weaknesses"
    /\ \E out \in E.llm :
        Continue(k, [tasks[k] EXCEPT !.pc = "risks", !.mw = out])
    /\ UNCHANGED <<docs, cmps, files>>

\* risk_categories.get('risk_categories', {}).get('categories', []) : raises
\* when the model's JSON is not an object
RiskCategoriesOf(out) ==
    CASE out = "dict" -> "categories"
      [] out = "err" -> "empty"
      [] OTHER -> "raise"

\* process_uploaded_report, steps 6-8 and the final commit
FinishProcess(k, out, commitOk) ==
    LET f == tasks[k]
        id == f.id
    IN IF RiskCategoriesOf(out) = "raise" \/ ~commitOk
       THEN /\ IF commitOk
               THEN ReportErrorHandler(id, f)
               ELSE docs' = [docs EXCEPT ![id].status = "error"]
            /\ Finish(k, "error")
       ELSE /\ docs' = [docs EXCEPT ![id] =
                    [@ EXCEPT !.embeddings = f.emb,
                              !.key_findings = f.findings,
                              !.risk_categories = RiskCategoriesOf(out),
                              !.compliance_scores = "scores",
                              !.structured_data = <<f.mw, out>>,
                              !.status = "processed",
                              !.processed_at = TRUE]]
            /\ Finish(k, "success")

\* a reprocess that does not need the structured data of an earlier run
FinishReprocessTolerant(k, out, commitOk) ==
    LET f == tasks[k]
        id == f.id
    IN IF RiskCategoriesOf(out) = "raise" \/ ~commitOk
       THEN /\ Finish(k, "error")
            /\ UNCHANGED docs
       ELSE /\ docs' = [docs EXCEPT ![id] =
                    [@ EXCEPT !.embeddings = f.emb,
                              !.key_findings = f.findings,
                              !.risk_categories = RiskCategoriesOf(out),
                              !.status = "processed",
                              !.processed_at = TRUE]]
            /\ Finish(k, "success")

\* reprocess_report, from categorize_risks to the final commit; its except
\* clause only returns the error
FinishReprocess(k, out, commitOk) ==
    LET f == tasks[k]
        id == f.id
    IN IF \/ RiskCategoriesOf(out) = "raise"
          \/ docs[id].structured_data = NoJson
          \/ ~commitOk
       THEN /\ Finish(k, "error")
            /\ UNCHANGED docs
       ELSE /\ docs' = [docs EXCEPT ![id] =
                    [@ EXCEPT !.embeddings = f.emb,
                              !.key_findings = f.findings,
                              !.risk_categories = RiskCategoriesOf(out),
                              !.status = "processed",
                              !.processed_at = TRUE]]
            /\ Finish(k, "success")

CategorizeRisks(E, k) ==
    /\ tasks[k].pc = "risks"
    /\ tasks[k].op \in {"process", "reprocess"}
    /\ \E out \in E.risks, commitOk \in BOOLEAN :
        IF tasks[k].op = "process"
        THEN FinishProcess(k, out, commitOk)
        ELSE FinishReprocess(k, out, commitOk)
    /\ UNCHANGED <<cmps, files>>

(***************************************************************************)
(* AIService.calculate_similarity, in thousandths.                         *)
(***************************************************************************)
RECURSIVE DotFrom(_, _, _)
DotFrom(a, b, i) ==
    IF i > Len(a) THEN 0 ELSE a[i] * b[i] + DotFrom(a, b, i + 1)

Dot(a, b) == DotFrom(a, b, 1)

\* the integer square root (exact on the squares the model's vectors give)
ISqrt(n) == CHOOSE r \in 0..n : r * r <= n /\ (r + 1) * (r + 1) > n

Norm(a) == ISqrt(Dot(a, a))

\* the cosine itself, not brought to the 0-1 scale
CosineUnscaled(a, b) == (Dot(a, b) * 1000) \div (Norm(a) * Norm(b))

\* the projection on the first vector: the dot product over its norm alone
CosineProjected(a, b) ==
    (((Dot(a, b) * 1000) \div (Norm(a) * Norm(a))) + 1000) \div 2

\* float((similarity + 1) / 2)
CalculateSimilarity(a, b) ==
    (((Dot(a, b) * 1000) \div (Norm(a) * Norm(b))) + 1000) \div 2

(***************************************************************************)
(* ComparisonService.create_comparison                                     *)
(***************************************************************************)
\* a create_comparison that does not look the two reports up
CreateComparisonUnchecked(E) ==
    \E company \in E.companies, src \in DocIds, tgt \in DocIds :
        /\ Len(cmps) < MaxCmps
        /\ cmps' = Append(cmps, NewComparison(company, src, tgt))
        /\ Return("create", Len(cmps) + 1, "created")
        /\ UNCHANGED <<docs, files>>

CreateComparison(E) ==
    \E company \in E.companies, src \in DocIds, tgt \in DocIds :
        IF src > Len(docs) \/ tgt > Len(docs)
        THEN /\ Return("create", 0, "error")
             /\ UNCHANGED <<docs, cmps, files>>
        ELSE /\ Len(cmps) < MaxCmps
             /\ cmps' = Append(cmps, NewComparison(company, src, tgt))
             /\ Return("create", Len(cmps) + 1, "created")
             /\ UNCHANGED <<docs, files>>

(***************************************************************************)
(* ComparisonService.process_comparison                                    *)
(***************************************************************************)
\* an except clause that only logs and re-raises
ComparisonErrorLogged(id, sim) == UNCHANGED cmps

\* the except clause: the row is looked up again in the same session and
\* committed as 'error' together with what the session still holds assigned
\* (sim: the similarity_score of line 89, or the stored one when nothing is
\* pending or the failed commit rolled the session back)
ComparisonErrorHandler(id, sim) ==
    cmps' = [cmps EXCEPT ![id] = [@ EXCEPT !.status = "error",
                                           !.similarity_score = sim]]

\* what the code takes for "processed": both reports have raw text
ReportsReady(src, tgt) ==
    /\ src \in 1..Len(docs) /\ tgt \in 1..Len(docs)
    /\ HasText(docs[src].raw_text) /\ HasText(docs[tgt].raw_text)

\* lines 58-65: the row is looked up and committed as 'processing'
ProcessComparison ==
    /\ CanCall
    /\ \E id \in CmpIds :
        IF id > Len(cmps)
        THEN /\ Return("compare", id, "error")
             /\ UNCHANGED <<docs, cmps, files>>
        ELSE /\ cmps' = [cmps EXCEPT ![id].status = "processing"]
             /\ Begin(Frame("compare", "check", id))
             /\ UNCHANGED <<docs, files>>

\* lines 67-78: the two reports are read and checked; the call then waits
\* for the holistic compare_reports call
CheckReports(k) ==
    /\ tasks[k].op = "compare" /\ tasks[k].pc = "check"
    /\ LET f == tasks[k]
           c == cmps[f.id]
       IN IF ~ReportsReady(c.source, c.target)
          THEN /\ ComparisonErrorHandler(f.id, c.similarity_score)
               /\ Finish(k, "error")
          ELSE /\ Continue(k, [f EXCEPT !.pc = "holistic",
                                        !.srcEmb = docs[c.source].embeddings,
                                        !.tgtEmb = docs[c.target].embeddings])
               /\ UNCHANGED cmps
    /\ UNCHANGED <<docs, files>>

\* lines 80-86
SimilarityOf(srcEmb, tgtEmb) ==
    IF HasEmb(srcEmb) /\ HasEmb(tgtEmb)
    THEN Score(CalculateSimilarity(srcEmb, tgtEmb))
    ELSE Score(0)

\* a call that commits status 'completed' with the holistic fields before
\* the section analysis runs
CompareReportsCommitting(E, k) ==
    /\ tasks[k].op = "compare" /\ tasks[k].pc = "holistic"
    /\ \E out \in E.holistic :
        LET f == tasks[k]
            sim == SimilarityOf(f.srcEmb, f.tgtEmb)
        IN IF out = "list"
           THEN /\ ComparisonErrorHandler(f.id, sim)
                /\ Finish(k, "error")
           ELSE /\ Continue(k, [f EXCEPT !.pc = "sections", !.result = out,
                                         !.sim = sim])
                /\ cmps' = [cmps EXCEPT ![f.id] =
                              [@ EXCEPT !.similarity_score = sim,
                                        !.holistic = "fields",
                                        !.status = "completed",
                                        !.completed_at = TRUE]]
    /\ UNCHANGED <<docs, files>>

\* a call that queries the two reports again after compare_reports answered
CompareReportsRereading(E, k) ==
    /\ tasks[k].op = "compare" /\ tasks[k].pc = "holistic"
    /\ \E out \in E.holistic :
        LET f == tasks[k]
            c == cmps[f.id]
            sim == SimilarityOf(docs[c.source].embeddings,
                                docs[c.target].embeddings)
        IN IF out = "list"
           THEN /\ ComparisonErrorHandler(f.id, sim)
                /\ Finish(k, "error")
           ELSE /\ Continue(k, [f EXCEPT !.pc = "sections", !.result = out,
                                         !.sim = sim])
                /\ UNCHANGED cmps
    /\ UNCHANGED <<docs, files>>

\* lines 74-95: compare_reports answers with the parsed JSON ("dict": an
\* object, "list": any other JSON value) or with its error dict ("err")
CompareReports(E, k) ==
    /\ tasks[k].op = "compare" /\ tasks[k].pc = "holistic"
    /\ \E out \in E.holistic :
        LET f == tasks[k]
            sim == SimilarityOf(f.srcEmb, f.tgtEmb)
        IN IF out = "list"
           THEN /\ ComparisonErrorHandler(f.id, sim)
                /\ Finish(k, "error")
           ELSE /\ Continue(k, [f EXCEPT !.pc = "sections", !.result = out,
                                         !.sim = sim])
                /\ UNCHANGED cmps
    /\ UNCHANGED <<docs, files>>

\* comparison_result.get(key, {}) for the four holistic fields
HolisticFields(result) == IF result = "dict" THEN "fields" ELSE "empty"

\* lines 97-112: section analysis, materiality and the commit
AnalyzeSections(E, k) ==
    /\ tasks[k].op = "compare" /\ tasks[k].pc = "sections"
    /\ \E commitOk \in BOOLEAN :
        LET f == tasks[k] IN
        IF commitOk
        THEN /\ cmps' = [cmps EXCEPT ![f.id] =
                    [@ EXCEPT !.similarity_score = f.sim,
                              !.holistic = HolisticFields(f.result),
                              !.status = "completed",
                              !.completed_at = TRUE,
                              !.section_comparisons = "sections",
                              !.materiality_assessment = "assessed"]]
             /\ Finish(k, "completed")
        ELSE /\ ComparisonErrorHandler(f.id, cmps[f.id].similarity_score)
             /\ Finish(k, "error")
    /\ UNCHANGED <<docs, files>>

(***************************************************************************)
(* AuditService.process_upload and its background _process_document       *)
(***************************************************************************)
\* a duplicate check that only looks at rows already processed
CheckDuplicateProcessedOnly(hash) ==
    {i \in 1..Len(docs) : docs[i].hash = hash /\ IsProcessed(docs[i].status)}

\* _check_duplicate: the rows with this content hash
CheckDuplicate(hash) == {i \in 1..Len(docs) : docs[i].hash = hash}

Uploading == {k \in 1..Len(tasks) : tasks[k].op = "upload"}

\* a duplicate branch that puts the stored row back in the queue and runs
\* its pipeline again
ProcessUploadRequeueing(E, flights) ==
    /\ CanCall
    /\ Cardinality(Uploading) < flights
    /\ \E valid \in BOOLEAN, company \in E.companies, hash \in E.hashes,
          name \in E.names :
        LET found == CheckDuplicate(hash) IN
        IF ~valid \/ Cardinality(found) > 1
        THEN /\ last' = RetOf("upload", 0, "error", hash)
             /\ UNCHANGED <<docs, tasks, cmps, files>>
        ELSE IF found # {}
        THEN LET id == CHOOSE i \in found : TRUE
             IN /\ last' = RetOf("upload", id, "duplicate", hash)
                /\ docs' = [docs EXCEPT ![id].status = "pending"]
                /\ tasks' = Append(tasks, Frame("extract", "status", id))
                /\ UNCHANGED <<cmps, files>>
        ELSE /\ Len(docs) + Cardinality(Uploading) < MaxDocs
             /\ Begin([Frame("upload", "save", 0) EXCEPT
                         !.company = company, !.arg = hash, !.name = name])
             /\ UNCHANGED <<docs, cmps, files>>

\* lines 30-43: validation, the hash and the duplicate check; at most
\* `flights` calls of process_upload run at a time
ProcessUpload(E, flights) ==
    /\ CanCall
    /\ Cardinality(Uploading) < flights
    /\ \E valid \in BOOLEAN, company \in E.companies, hash \in E.hashes,
          name \in E.names :
        LET found == CheckDuplicate(hash) IN
        IF ~valid \/ Cardinality(found) > 1
        THEN \* DataIngestionException (scalar_one_or_none raises on two rows)
             /\ last' = RetOf("upload", 0, "error", hash)
             /\ UNCHANGED <<docs, tasks, cmps, files>>
        ELSE IF found # {}
        THEN /\ last' = RetOf("upload", CHOOSE i \in found : TRUE, "duplicate", hash)
             /\ UNCHANGED <<docs, tasks, cmps, files>>
        ELSE /\ Len(docs) + Cardinality(Uploading) < MaxDocs
             /\ Begin([Frame("upload", "save", 0) EXCEPT
                         !.company = company, !.arg = hash, !.name = name])
             /\ UNCHANGED <<docs, cmps, files>>

\* _save_file: the bytes are written under the upload's file name
SaveFile(k) ==
    /\ tasks[k].op = "upload" /\ tasks[k].pc = "save"
    /\ files' = [files EXCEPT ![tasks[k].name] = tasks[k].arg]
    /\ Continue(k, [tasks[k] EXCEPT !.pc = "commit"])
    /\ UNCHANGED <<docs, cmps>>

\* lines 48-67: the row is committed 'pending', _process_document is started
\* as a task of its own and the row is returned
CommitUpload(k) ==
    /\ tasks[k].op = "upload" /\ tasks[k].pc = "commit"
    /\ LET f == tasks[k]
           id == Len(docs) + 1
       IN /\ docs' = Append(docs, NewUpload(f.company, f.arg, f.name))
          /\ tasks' = [tasks EXCEPT ![k] = Frame("extract", "status", id)]
          /\ last' = RetOf("upload", id, "created", f.arg)
    /\ UNCHANGED <<cmps, files>>

\* _update_status
UpdateStatus(id, status) ==
    docs' = [docs EXCEPT ![id].status = status]

\* _process_document, line 132
StartProcessDocument(k) ==
    /\ tasks[k].op = "extract" /\ tasks[k].pc = "status"
    /\ UpdateStatus(tasks[k].id, "processing")
    /\ Continue(k, [tasks[k] EXCEPT !.pc = "text"])
    /\ UNCHANGED <<cmps, files>>

\* lines 142-144: text extraction answers or raises
ExtractText(E, k) ==
    /\ tasks[k].op = "extract" /\ tasks[k].pc = "text"
    /\ \E ok \in BOOLEAN :
        IF ok
        THEN /\ Continue(k, [tasks[k] EXCEPT !.pc = "store"])
             /\ UNCHANGED docs
        ELSE /\ UpdateStatus(tasks[k].id, "failed")
             /\ EndTask(k)
    /\ UNCHANGED <<cmps, files>>

\* lines 146-169: the vector store answers or raises
StoreDocument(E, k) ==
    /\ tasks[k].op = "extract" /\ tasks[k].pc = "store"
    /\ \E ok \in BOOLEAN, text \in E.texts :
        IF ok
        THEN docs' = [docs EXCEPT ![tasks[k].id] =
                        [@ EXCEPT !.raw_text = text, !.status = "completed"]]
        ELSE UpdateStatus(tasks[k].id, "failed")
    /\ EndTask(k)
    /\ UNCHANGED <<cmps, files>>

(***************************************************************************)
(* Specification.                                                          *)
(***************************************************************************)
Init ==
    /\ docs = <<>>
    /\ cmps = <<>>
    /\ tasks = <<>>
    /\ last = Ret(None, 0, None)
    /\ files = [n \in FileNames |-> None]

\* the inputs and collaborator answers a specification draws from
Env == [companies |-> {"c1"}, hashes |-> {"h1"}, texts |-> Texts,
        vecs |-> {<<1, 0>>}, llm |-> {"ok"}, risks |-> {"dict", "list"},
        holistic |-> {"dict", "list", "err"}, names |-> FileNames]

PipelineSteps ==
    \/ \E k \in 1..Len(tasks) : GenerateEmbeddings(Env, k)
    \/ \E k \in 1..Len(tasks) : ExtractKeyFindings(Env, k)
    \/ \E k \in 1..Len(tasks) : DetectMaterialWeaknesses(Env, k)
    \/ \E k \in 1..Len(tasks) : CategorizeRisks(Env, k)

\* the report pipeline: uploads processed and reprocessed concurrently
Next ==
    \/ ProcessUploadedReport(Env)
    \/ ReprocessReport
    \/ PipelineSteps

Spec == Init /\ [][Next]_vars

(***************************************************************************)
(* The comparison engine over reports the pipeline produces.               *)
(***************************************************************************)
ComparisonSteps ==
    \/ \E k \in 1..Len(tasks) : CheckReports(k)
    \/ \E k \in 1..Len(tasks) : CompareReports(Env, k)
    \/ \E k \in 1..Len(tasks) : AnalyzeSections(Env, k)

CmpNext ==
    \/ ProcessUploadedReport(Env)
    \/ PipelineSteps
    \/ CreateComparison(Env)
    \/ ProcessComparison
    \/ ComparisonSteps

CmpSpec == Init /\ [][CmpNext]_vars

(***************************************************************************)
(* The comparison engine alone, on one comparison of two reports the       *)
(* pipeline has left behind: the target is processed, or failed at the     *)
(* embedding step with its text stored, or failed on an empty text.  Every *)
(* call in flight is resumed when its collaborator answers.                *)
(***************************************************************************)
ProcessedReport ==
    [NewReport("c1", "h1", "text") EXCEPT
        !.embeddings = <<1, 0>>, !.key_findings = "ok",
        !.risk_categories = "categories", !.compliance_scores = "scores",
        !.structured_data = <<"ok", "dict">>, !.status = "processed",
        !.processed_at = TRUE]

FailedReport(text) == [NewReport("c1", "h1", text) EXCEPT !.status = "error"]

SampleStores ==
    {<<ProcessedReport, target>> :
        target \in {ProcessedReport, FailedReport("text"), FailedReport("")}}

LiveInit ==
    /\ docs \in SampleStores
    /\ cmps = <<NewComparison("c1", 1, 2)>>
    /\ tasks = <<>>
    /\ last = Ret(None, 0, None)
    /\ files = [n \in FileNames |-> None]

LiveNext ==
    \/ ProcessComparison
    \/ ComparisonSteps

\* the event loop resumes the call at position k of the calls in flight
Resume(k) ==
    /\ k \in 1..Len(tasks)
    /\ (CheckReports(k) \/ CompareReports(Env, k) \/ AnalyzeSections(Env, k))

LiveSpec ==
    LiveInit /\ [][LiveNext]_vars /\ \A k \in 1..MaxTasks : WF_vars(Resume(k))

(***************************************************************************)
(* The upload service alone: concurrent uploads, and uploads one at a time *)
(***************************************************************************)
UploadEnv == [companies |-> Companies, hashes |-> Hashes, texts |-> {"text"},
              names |-> FileNames]

UploadSteps ==
    \/ \E k \in 1..Len(tasks) : SaveFile(k)
    \/ \E k \in 1..Len(tasks) : CommitUpload(k)
    \/ \E k \in 1..Len(tasks) : StartProcessDocument(k)
    \/ \E k \in 1..Len(tasks) : ExtractText(UploadEnv, k)
    \/ \E k \in 1..Len(tasks) : StoreDocument(UploadEnv, k)

UploadSpec ==
    Init /\ [][
           \/ ProcessUpload(UploadEnv, MaxTasks)
           \/ UploadSteps
         ]_vars

UploadSeqSpec ==
    Init /\ [][
           \/ ProcessUpload(UploadEnv, 1)
           \/ UploadSteps
         ]_vars

(***************************************************************************)
(* Comparisons requested while uploads are still being taken in: the rows  *)
(* process_upload commits 'pending' are rows of the same audit_reports     *)
(* table the comparison service reads.                                     *)
(***************************************************************************)
IntakeEnv == [companies |-> {"c1"}, hashes |-> Hashes, texts |-> {"text"},
              holistic |-> {"dict", "err"}, names |-> FileNames]

IntakeNext ==
    \/ ProcessUpload(IntakeEnv, 1)
    \/ UploadSteps
    \/ CreateComparison(IntakeEnv)
    \/ ProcessComparison
    \/ \E k \in 1..Len(tasks) : CheckReports(k)
    \/ \E k \in 1..Len(tasks) : CompareReports(IntakeEnv, k)
    \/ \E k \in 1..Len(tasks) : AnalyzeSections(IntakeEnv, k)

IntakeSpec == Init /\ [][IntakeNext]_vars

(***************************************************************************)
(* ComparisonService._extract_section and _analyze_sections.               *)
(*                                                                         *)
(* A text is the sequence of its lines (text.split('\n')); a line is its   *)
(* words and whether it starts with a space.  `needle in line` is modelled *)
(* on whole words.                                                         *)
(***************************************************************************)
SectionCap == 50

Sections ==
    {"Executive Summary", "Scope and Methodology", "Key Findings",
     "Material Weaknesses", "Significant Deficiencies", "Risk Assessment",
     "Recommendations", "Management Response"}

\* the words of a section name as _analyze_sections spells it
SectionTitle(name) ==
    CASE name = "Executive Summary" -> <<"Executive", "Summary">>
      [] name = "Scope and Methodology" -> <<"Scope", "and", "Methodology">>
      [] name = "Key Findings" -> <<"Key", "Findings">>
      [] name = "Material Weaknesses" -> <<"Material", "Weaknesses">>
      [] name = "Significant Deficiencies" -> <<"Significant", "Deficiencies">>
      [] name = "Risk Assessment" -> <<"Risk", "Assessment">>
      [] name = "Recommendations" -> <<"Recommendations">>
      [] name = "Management Response" -> <<"Management", "Response">>

\* str.lower() on a word
LowerWord(w) ==
    CASE w = "Executive" -> "executive"
      [] w = "Summary" -> "summary"
      [] w = "Scope" -> "scope"
      [] w = "Methodology" -> "methodology"
      [] w = "Key" -> "key"
      [] w = "KEY" -> "key"
      [] w = "Findings" -> "findings"
      [] w = "FINDINGS" -> "findings"
      [] w = "Material" -> "material"
      [] w = "Weaknesses" -> "weaknesses"
      [] w = "Significant" -> "significant"
      [] w = "Deficiencies" -> "deficiencies"
      [] w = "Risk" -> "risk"
      [] w = "Assessment" -> "assessment"
      [] w = "Recommendations" -> "recommendations"
      [] w = "Management" -> "management"
      [] w = "Response" -> "response"
      [] OTHER -> w

\* str.lower() on a line or a section name
Lower(words) == [i \in 1..Len(words) |-> LowerWord(words[i])]

TextLine(indent, words) == [indent |-> indent, words |-> words]

\* needle in hay
ContainsWords(hay, needle) ==
    \E i \in 0..(Len(hay) - Len(needle)) :
        SubSeq(hay, i + 1, i + Len(needle)) = needle

\* section_name.lower() in line.lower()
NamesSection(line, name) ==
    ContainsWords(Lower(line.words), Lower(SectionTitle(name)))

\* line 173: the keywords taken for the header of another section
HeaderKeywords == {"summary", "scope", "findings", "recommendations"}

\* lines 173-174
IsNewHeader(line) ==
    /\ \E i \in 1..Len(line.words) : LowerWord(line.words[i]) \in HeaderKeywords
    /\ line.words # <<>>
    /\ ~line.indent

\* the loop of lines 166-181 from line i on
RECURSIVE CollectSection(_, _, _, _, _)
CollectSection(lines, name, i, in_section, content) ==
    IF i > Len(lines) THEN content
    ELSE IF NamesSection(lines[i], name)
    THEN CollectSection(lines, name, i + 1, TRUE, content)
    ELSE IF ~in_section
    THEN CollectSection(lines, name, i + 1, FALSE, content)
    ELSE IF IsNewHeader(lines[i]) THEN content
    ELSE IF Len(content) + 1 > SectionCap THEN Append(content, lines[i])
    ELSE CollectSection(lines, name, i + 1, TRUE, Append(content, lines[i]))

\* str.strip() on the joined lines: blank lines at either end go, and so
\* does the leading space of the first line left
RECURSIVE StripLines(_)
StripLines(lines) ==
    IF lines = <<>> THEN <<>>
    ELSE IF lines[1].words = <<>> THEN StripLines(Tail(lines))
    ELSE IF lines[Len(lines)].words = <<>>
    THEN StripLines(SubSeq(lines, 1, Len(lines) - 1))
    ELSE <<TextLine(FALSE, lines[1].words)>> \o Tail(lines)

\* what _extract_section returns: None, or the (possibly empty) excerpt
NoSection == [some |-> FALSE, lines |-> <<>>]

ExtractSection(text, name) ==
    LET content == CollectSection(text, name, 1, FALSE, <<>>)
    IN IF content = <<>> THEN NoSection
       ELSE [some |-> TRUE, lines |-> StripLines(content)]

\* Python truthiness of what _extract_section returns
HasSection(excerpt) == excerpt.some /\ excerpt.lines # <<>>

\* a section map that keeps a null entry for a section not found in both
SectionAnalysisNullFilled(source_text, target_text, failed) ==
    [name \in Sections |->
        IF /\ HasSection(ExtractSection(source_text, name))
           /\ HasSection(ExtractSection(target_text, name))
        THEN IF name \in failed THEN "err" ELSE "dict"
        ELSE "null"]

\* lines 140-152: failed is the set of sections whose compare_reports call
\* failed; compare_reports then answers with its error dict
SectionAnalysis(source_text, target_text, failed) ==
    LET found == {name \in Sections :
                    /\ HasSection(ExtractSection(source_text, name))
                    /\ HasSection(ExtractSection(target_text, name))}
    IN [name \in found |-> IF name \in failed THEN "err" ELSE "dict"]

(***************************************************************************)
(* The section functions alone, called on sample texts.                    *)
(***************************************************************************)
MaxLines == 3       \* lines of a short sample text
MaxBody == 52       \* body lines of a long sample section

BodyLine == TextLine(FALSE, <<"controls", "failed">>)
BlankLine == TextLine(FALSE, <<>>)

SampleLines ==
    {TextLine(FALSE, <<"Key", "Findings">>),
     TextLine(FALSE, <<"KEY", "FINDINGS">>),
     TextLine(FALSE, <<"Material", "Weaknesses">>),
     TextLine(FALSE, <<"Recommendations">>),
     TextLine(FALSE, <<"see", "findings", "below">>),
     TextLine(TRUE, <<"findings", "continued">>),
     BodyLine,
     BlankLine}

ShortTexts == UNION {[1..n -> SampleLines] : n \in 1..MaxLines}

\* a "Key Findings" header followed by n body lines and no other header
LongSection(n) ==
    <<TextLine(FALSE, SectionTitle("Key Findings"))>> \o [i \in 1..n |-> BodyLine]

LongTexts == {LongSection(n) : n \in 0..MaxBody}

\* a report of the sections q, each a header line and one line of body
RECURSIVE Report(_, _)
Report(q, body) ==
    IF q = <<>> THEN <<>>
    ELSE <<TextLine(FALSE, SectionTitle(Head(q))), body>> \o Report(Tail(q), body)

ReportSections == {"Key Findings", "Material Weaknesses", "Recommendations"}

ReportTexts ==
    {Report(q, body) :
        q \in {<<a>> : a \in ReportSections}
              \cup {p \in ReportSections \X ReportSections : p[1] # p[2]},
        body \in {BodyLine, BlankLine}}

\* a call of a pure function, observed once from the initial state
FirstCall == last = Ret(None, 0, None)

ExtractSectionCall ==
    /\ FirstCall
    /\ \E text \in ShortTexts \cup LongTexts, name \in Sections :
        last' = RetOf("extract_section", 0, ExtractSection(text, name),
                      <<text, name>>)
    /\ UNCHANGED <<docs, cmps, tasks, files>>

AnalyzeSectionsCall ==
    /\ FirstCall
    /\ \E source_text \in ReportTexts, target_text \in ReportTexts,
          failed \in SUBSET ReportSections :
        last' = RetOf("analyze_sections", 0,
                      SectionAnalysis(source_text, target_text, failed),
                      <<source_text, target_text, failed>>)
    /\ UNCHANGED <<docs, cmps, tasks, files>>

SectionSpec ==
    Init /\ [][
           \/ ExtractSectionCall
           \/ AnalyzeSectionsCall
         ]_vars

(***************************************************************************)
(* ComparisonService._assess_materiality.                                  *)
(*                                                                         *)
(* str(comparison_result).lower() is modelled by the set of phrases that   *)
(* occur in it: phrases of the model's prose and keys of its JSON.         *)
(***************************************************************************)
ResultPhrases ==
    {"material weakness", "material_weaknesses", "significant deficiency",
     "significant_deficiencies", "compliance", "compliance_gaps",
     "key_differences"}

\* keyword in phrase, for the three keywords of lines 196-204
KeywordIn(keyword, phrase) ==
    \/ keyword = phrase
    \/ keyword = "compliance" /\ phrase = "compliance_gaps"

\* keyword in str(comparison_result).lower()
Mentions(phrases, keyword) == \E p \in phrases : KeywordIn(keyword, p)

\* a level that needs more than 5 for High
MaterialityLevelAboveFive(score) ==
    IF score > 5 THEN "High" ELSE IF score >= 3 THEN "Medium" ELSE "Low"

\* lines 193-205
MaterialityScore(phrases) ==
    (IF Mentions(phrases, "material_weaknesses") THEN 3 ELSE 0)
    + (IF Mentions(phrases, "significant_deficiencies") THEN 2 ELSE 0)
    + (IF Mentions(phrases, "compliance") THEN 2 ELSE 0)

\* lines 207-213
MaterialityLevel(score) ==
    IF score >= 5 THEN "High" ELSE IF score >= 3 THEN "Medium" ELSE "Low"

\* lines 215-224; now is datetime.utcnow()
AssessMateriality(phrases, now) ==
    [materiality_level |-> MaterialityLevel(MaterialityScore(phrases)),
     materiality_score |-> MaterialityScore(phrases),
     assessment_date |-> now]

(***************************************************************************)
(* The scoring functions alone: materiality and similarity.                *)
(***************************************************************************)
MaxCoord == 4       \* largest coordinate of a sample embedding
MaxClock == 2       \* instants a call may be made at

\* n is the square of an integer
IsSquare(n) == \E r \in 1..n : r * r = n

\* embeddings a sentence encoder may give: non-zero, of one dimension (and,
\* for the integer square root to be exact, of integer length)
Vectors ==
    {v \in (-MaxCoord..MaxCoord) \X (-MaxCoord..MaxCoord) :
        IsSquare(v[1] * v[1] + v[2] * v[2])}

AssessMaterialityCall ==
    /\ FirstCall
    /\ \E phrases \in SUBSET ResultPhrases, now \in 1..MaxClock :
        last' = RetOf("assess_materiality", 0, AssessMateriality(phrases, now),
                      phrases)
    /\ UNCHANGED <<docs, cmps, tasks, files>>

CalculateSimilarityCall ==
    /\ FirstCall
    /\ \E a \in Vectors, b \in Vectors :
        last' = RetOf("calculate_similarity", 0, CalculateSimilarity(a, b),
                      <<a, b>>)
    /\ UNCHANGED <<docs, cmps, tasks, files>>

\* lines 80-89 of process_comparison on the embeddings of its two reports
StoreSimilarityCall ==
    /\ FirstCall
    /\ \E a \in Vectors \cup {NoEmb}, b \in Vectors \cup {NoEmb} :
        last' = RetOf("similarity_score", 0, SimilarityOf(a, b), <<a, b>>)
    /\ UNCHANGED <<docs, cmps, tasks, files>>

ScoringSpec ==
    Init /\ [][
           \/ AssessMaterialityCall
           \/ CalculateSimilarityCall
           \/ StoreSimilarityCall
         ]_vars

(***************************************************************************)
(* The report pipeline with a healthy database and failing AI              *)
(* collaborators: the embedding call raises or answers, the three language *)
(* model steps answer with the expected object ("ok", "dict"), with their  *)
(* error dict ("err") or with JSON of another shape ("list").              *)
(***************************************************************************)
DegradedEnv == [companies |-> {"c1"}, hashes |-> {"h1"}, texts |-> {"text"},
                vecs |-> {<<1, 0>>}, llm |-> {"ok", "err", "list"},
                risks |-> {"dict", "err", "list"}]

\* categorize_risks and the rest of the call, the final commit succeeding
CategorizeRisksCommitted(E, k) ==
    /\ tasks[k].pc = "risks"
    /\ tasks[k].op \in {"process", "reprocess"}
    /\ \E out \in E.risks :
        IF tasks[k].op = "process"
        THEN FinishProcess(k, out, TRUE)
        ELSE FinishReprocess(k, out, TRUE)
    /\ UNCHANGED <<cmps, files>>

\* one call at a time
DegradedNext ==
    \/ tasks = <<>> /\ ProcessUploadedReport(DegradedEnv)
    \/ tasks = <<>> /\ ReprocessReport
    \/ \E k \in 1..Len(tasks) : GenerateEmbeddings(DegradedEnv, k)
    \/ \E k \in 1..Len(tasks) : ExtractKeyFindings(DegradedEnv, k)
    \/ \E k \in 1..Len(tasks) : DetectMaterialWeaknesses(DegradedEnv, k)
    \/ \E k \in 1..Len(tasks) : CategorizeRisksCommitted(DegradedEnv, k)

DegradedSpec == Init /\ [][DegradedNext]_vars

(***************************************************************************)
(* ReportProcessingService._assess_compliance_scores and                   *)
(* _calculate_framework_score.                                             *)
(*                                                                         *)
(* A text is the sequence of its words (text.split()), taken as separated  *)
(* by single spaces; str.count of a keyword is modelled on whole words,    *)
(* the last of which may carry a plural ending.  Scores are in hundredths. *)
(***************************************************************************)
Frameworks == {"SOX", "COSO", "PCAOB", "SEC"}

\* lines 158-163
FrameworkKeywords(framework) ==
    CASE framework = "SOX" ->
            {<<"internal", "control">>, <<"material", "weakness">>,
             <<"significant", "deficiency">>, <<"financial", "reporting">>}
      [] framework = "COSO" ->
            {<<"control", "environment">>, <<"risk", "assessment">>,
             <<"control", "activities">>, <<"monitoring">>}
      [] framework = "PCAOB" ->
            {<<"audit", "standard">>, <<"audit", "opinion">>,
             <<"audit", "evidence">>, <<"audit", "risk">>}
      [] framework = "SEC" ->
            {<<"disclosure">>, <<"financial", "statement">>, <<"filing">>,
             <<"regulation">>}

\* the keyword word a longer word starts with
WordStem(w) ==
    CASE w = "weaknesses" -> "weakness"
      [] w = "disclosures" -> "disclosure"
      [] w = "filings" -> "filing"
      [] OTHER -> w

\* the keyword occurs in the text at word i
KeywordAt(words, keyword, i) ==
    /\ i + Len(keyword) - 1 <= Len(words)
    /\ \A j \in 1..Len(keyword) :
        IF j = Len(keyword)
        THEN WordStem(words[i + j - 1]) = keyword[j]
        ELSE words[i + j - 1] = keyword[j]

\* text_lower.count(keyword): occurrences that do not overlap, from word i on
RECURSIVE CountFrom(_, _, _)
CountFrom(words, keyword, i) ==
    IF i > Len(words) THEN 0
    ELSE IF KeywordAt(words, keyword, i)
    THEN 1 + CountFrom(words, keyword, i + Len(keyword))
    ELSE CountFrom(words, keyword, i + 1)

RECURSIVE SumCounts(_, _)
SumCounts(words, keywords) ==
    IF keywords = {} THEN 0
    ELSE LET keyword == CHOOSE x \in keywords : TRUE
         IN CountFrom(words, keyword, 1) + SumCounts(words, keywords \ {keyword})

\* line 168
KeywordCount(text, framework) ==
    SumCounts(Lower(text), FrameworkKeywords(framework))

\* round(x, 2) of the ratio n / d, in hundredths (ties go to the even digit)
RoundHundredths(n, d) ==
    LET q == (n * 100) \div d
        r == (n * 100) % d
    IN IF 2 * r > d \/ (2 * r = d /\ q % 2 = 1) THEN q + 1 ELSE q

\* a score that is not capped
CalculateFrameworkScoreUncapped(text, framework) ==
    IF Len(text) > 0
    THEN RoundHundredths(KeywordCount(text, framework) * 1000, Len(text))
    ELSE 0

\* lines 167-177: frequency = keyword_count / word_count (0 without words),
\* score = min(frequency * 1000, 100), rounded to two decimals
CalculateFrameworkScore(text, framework) ==
    LET keyword_count == KeywordCount(text, framework)
        word_count == Len(text)
    IN IF word_count > 0
       THEN IF keyword_count * 1000 >= 100 * word_count
            THEN 10000
            ELSE RoundHundredths(keyword_count * 1000, word_count)
       ELSE 0

\* lines 128-146: one entry per framework
AssessComplianceScores(text, now) ==
    [framework \in Frameworks |->
        [score |-> CalculateFrameworkScore(text, framework),
         description |-> framework,
         assessment_date |-> now]]

MaxHits == 3
MaxFill == 30

\* phrases of a report: with capitals, in the plural, running into one
\* another
SamplePhrases ==
    {<<"Risk", "Assessment">>, <<"material", "weaknesses">>, <<"disclosure">>,
     <<"audit", "Risk", "Assessment">>, <<"Management">>}

RECURSIVE Repeated(_, _)
Repeated(phrase, n) ==
    IF n = 0 THEN <<>> ELSE phrase \o Repeated(phrase, n - 1)

\* a phrase said `hits` times, in `fill` other words
ComplianceTexts ==
    {Repeated(<<"the">>, fill) \o Repeated(phrase, hits) :
        phrase \in SamplePhrases, hits \in 0..MaxHits, fill \in 0..MaxFill}

AssessComplianceScoresCall ==
    /\ FirstCall
    /\ \E text \in ComplianceTexts, now \in 1..MaxClock :
        last' = RetOf("assess_compliance_scores", 0,
                      AssessComplianceScores(text, now), text)
    /\ UNCHANGED <<docs, cmps, tasks, files>>

ComplianceSpec == Init /\ [][AssessComplianceScoresCall]_vars

(***************************************************************************)
(* Calls cancelled while they wait for a collaborator: one call at a time  *)
(* on a store the pipeline has left behind.                                *)
(***************************************************************************)
\* the awaits that suspend: the language-model calls (generate_embeddings
\* has no await of its own)
Suspended(f) ==
    \/ f.op \in {"process", "reprocess"} /\
         f.pc \in {"findings", "weaknesses", "risks"}
    \/ f.op = "compare" /\ f.pc \in {"holistic", "sections"}

\* the task of call k is cancelled: CancelledError is raised at the await;
\* it is not an Exception, so no except clause of the call runs and the
\* session is closed without a commit
Cancel(k) ==
    /\ Suspended(tasks[k])
    /\ Finish(k, "cancelled")
    /\ UNCHANGED <<docs, cmps, files>>

CancelInit ==
    /\ \/ docs = <<ProcessedReport>> /\ cmps = <<NewComparison("c1", 1, 1)>>
       \/ docs \in SampleStores /\ cmps = <<NewComparison("c1", 1, 2)>>
    /\ tasks = <<>>
    /\ last = Ret(None, 0, None)
    /\ files = [n \in FileNames |-> None]

CancelNext ==
    \/ tasks = <<>> /\ ProcessUploadedReport(Env)
    \/ tasks = <<>> /\ ReprocessReport
    \/ tasks = <<>> /\ ProcessComparison
    \/ PipelineSteps
    \/ ComparisonSteps
    \/ \E k \in 1..Len(tasks) : Cancel(k)

CancelSpec == CancelInit /\ [][CancelNext]_vars

(***************************************************************************)
(* Reports reprocessed while a comparison of them runs: one                *)
(* process_comparison call and one reprocess_report call at a time.        *)
(***************************************************************************)
RaceEnv == [vecs |-> EmbVecs, llm |-> {"ok"}, risks |-> {"dict"},
            holistic |-> {"dict", "list"}]

\* the calls of an operation in flight
InFlight(op) == {k \in 1..Len(tasks) : tasks[k].op = op}

RaceNext ==
    \/ InFlight("compare") = {} /\ ProcessComparison
    \/ InFlight("reprocess") = {} /\ ReprocessReport
    \/ \E k \in 1..Len(tasks) : GenerateEmbeddings(RaceEnv, k)
    \/ \E k \in 1..Len(tasks) : ExtractKeyFindings(RaceEnv, k)
    \/ \E k \in 1..Len(tasks) : DetectMaterialWeaknesses(RaceEnv, k)
    \/ \E k \in 1..Len(tasks) : CategorizeRisks(RaceEnv, k)
    \/ \E k \in 1..Len(tasks) : CheckReports(k)
    \/ \E k \in 1..Len(tasks) : CompareReports(RaceEnv, k)
    \/ \E k \in 1..Len(tasks) : AnalyzeSections(RaceEnv, k)

RaceSpec == LiveInit /\ [][RaceNext]_vars

(***************************************************************************)
(* Pipelines of different reports side by side (one of each kind at a      *)
(* time), next to a comparison that is not being processed.                *)
(***************************************************************************)
FrameEnv == [companies |-> {"c1"}, hashes |-> {"h2"}, texts |-> {"text"},
             vecs |-> {<<-1, 0>>}, llm |-> {"ok"}, risks |-> {"dict", "list"},
             names |-> FileNames]

FrameInit ==
    /\ docs = <<ProcessedReport>>
    /\ cmps = <<NewComparison("c1", 1, 1)>>
    /\ tasks = <<>>
    /\ last = Ret(None, 0, None)
    /\ files = [n \in FileNames |-> None]

FrameNext ==
    \/ InFlight("process") = {} /\ ProcessUploadedReport(FrameEnv)
    \/ InFlight("reprocess") = {} /\ ReprocessReport
    \/ \E k \in 1..Len(tasks) : GenerateEmbeddings(FrameEnv, k)
    \/ \E k \in 1..Len(tasks) : ExtractKeyFindings(FrameEnv, k)
    \/ \E k \in 1..Len(tasks) : DetectMaterialWeaknesses(FrameEnv, k)
    \/ \E k \in 1..Len(tasks) : CategorizeRisks(FrameEnv, k)
    \/ InFlight("extract") = {} /\ ProcessUpload(FrameEnv, 1)
    \/ \E k \in 1..Len(tasks) : SaveFile(k)
    \/ \E k \in 1..Len(tasks) : CommitUpload(k)
    \/ \E k \in 1..Len(tasks) : StartProcessDocument(k)
    \/ \E k \in 1..Len(tasks) : ExtractText(FrameEnv, k)
    \/ \E k \in 1..Len(tasks) : StoreDocument(FrameEnv, k)

FrameSpec == FrameInit /\ [][FrameNext]_vars

(***************************************************************************)
(* Upload validation: DocumentProcessor.validate_file,                     *)
(* AuditService._validate_file and the checks of the upload_document       *)
(* endpoint.  An upload is the type its client declares, the extension of  *)
(* its file name, the type its bytes are sniffed as, and its size.         *)
(***************************************************************************)
MaxFileSize == 52428800

Docx == "application/vnd.openxmlformats-officedocument.wordprocessingml.document"

\* SUPPORTED_FORMATS, and allowed_types of _validate_file
SupportedFormats == {"application/pdf", Docx, "text/plain"}

AllowedExtensions == {".pdf", ".docx", ".doc", ".xlsx", ".csv", ".txt"}

\* magic.from_file on the bytes; the size test comes first
ValidateFile(upload) ==
    IF upload.size > MaxFileSize
    THEN [valid |-> FALSE, error |-> "File too large (max 50MB)"]
    ELSE IF upload.sniffed \notin SupportedFormats
    THEN [valid |-> FALSE, error |-> "Unsupported file type"]
    ELSE [valid |-> TRUE, error |-> None]

\* file.content_type is what the client declared
AuditValidateFile(upload) ==
    upload.declared \in SupportedFormats /\ upload.size <= MaxFileSize

\* upload_document: the extension of the file name, then the size
EndpointAccepts(upload) ==
    upload.extension \in AllowedExtensions /\ ~(upload.size > MaxFileSize)

SampleUploads ==
    [declared : {"application/pdf", "application/x-dosexec"},
     extension : {".pdf", ".exe"},
     sniffed : {"application/pdf", "text/plain", "application/x-dosexec"},
     size : {1, MaxFileSize - 1, MaxFileSize, MaxFileSize + 1}]

ValidateFileCall ==
    /\ FirstCall
    /\ \E upload \in SampleUploads :
        last' = RetOf("validate_file", 0, ValidateFile(upload).valid, upload)
    /\ UNCHANGED <<docs, cmps, tasks, files>>

AuditValidateFileCall ==
    /\ FirstCall
    /\ \E upload \in SampleUploads :
        last' = RetOf("_validate_file", 0, AuditValidateFile(upload), upload)
    /\ UNCHANGED <<docs, cmps, tasks, files>>

UploadDocumentCall ==
    /\ FirstCall
    /\ \E upload \in SampleUploads :
        last' = RetOf("upload_document", 0, EndpointAccepts(upload), upload)
    /\ UNCHANGED <<docs, cmps, tasks, files>>

ValidationSpec ==
    Init /\ [][
           \/ ValidateFileCall
           \/ AuditValidateFileCall
           \/ UploadDocumentCall
         ]_vars

(***************************************************************************)
(* AIService._clean_text.                                                  *)
(*                                                                         *)
(* A text is a sequence of runs, each a character and how many times it is *)
(* repeated: "a" a letter, "SP" a space, "LF" a newline, "NUL" the         *)
(* character \x00, "BEL" the character \x07, "." a full stop.              *)
(***************************************************************************)
CleanCap == 8000

\* the characters str.split() splits on
Whitespace == {"SP", "LF"}

Run(ch, n) == [ch |-> ch, n |-> n]

RECURSIVE TextLen(_)
TextLen(runs) ==
    IF runs = <<>> THEN 0 ELSE runs[1].n + TextLen(Tail(runs))

\* ' '.join(text.split()) from run i on: out holds the words so far, each
\* block of whitespace between two words replaced by one space
RECURSIVE JoinWords(_, _, _)
JoinWords(runs, i, out) ==
    IF i > Len(runs)
    THEN IF out # <<>> /\ out[Len(out)].ch = "SP"
         THEN SubSeq(out, 1, Len(out) - 1)
         ELSE out
    ELSE IF runs[i].ch \in Whitespace
    THEN IF out = <<>> \/ out[Len(out)].ch = "SP"
         THEN JoinWords(runs, i + 1, out)
         ELSE JoinWords(runs, i + 1, Append(out, Run("SP", 1)))
    ELSE JoinWords(runs, i + 1, Append(out, runs[i]))

\* text.replace('\x00', '')
RemoveNul(runs) == SelectSeq(runs, LAMBDA r : r.ch # "NUL")

\* text[:n]
RECURSIVE Take(_, _)
Take(runs, n) ==
    IF runs = <<>> \/ n = 0 THEN <<>>
    ELSE IF runs[1].n >= n THEN <<Run(runs[1].ch, n)>>
    ELSE <<runs[1]>> \o Take(Tail(runs), n - runs[1].n)

TruncationMarker == Run(".", 3)

\* lines 193-202
CleanText(text) ==
    LET joined == RemoveNul(JoinWords(text, 1, <<>>))
    IN IF TextLen(joined) > CleanCap
       THEN Append(Take(joined, CleanCap), TruncationMarker)
       ELSE joined

MaxRuns == 3

\* the texts of up to MaxRuns runs
RawTexts ==
    LET SampleRuns == {Run(ch, n) : ch \in {"a", "SP", "LF", "NUL", "BEL"},
                                    n \in {1, 2, CleanCap}}
    IN UNION {[1..len -> SampleRuns] : len \in 0..MaxRuns}

CleanTextCall ==
    /\ FirstCall
    /\ \E text \in RawTexts :
        last' = RetOf("clean_text", 0, CleanText(text), text)
    /\ UNCHANGED <<docs, cmps, tasks, files>>

CleanSpec == Init /\ [][CleanTextCall]_vars

(***************************************************************************)
(* Reports processed and reprocessed, one upload and one reprocess at a    *)
(* time, every step and the final commit failing or not.                   *)
(***************************************************************************)
ReportSpec ==
    Init /\ [][
           \/ InFlight("process") = {} /\ ProcessUploadedReport(Env)
           \/ InFlight("reprocess") = {} /\ ReprocessReport
           \/ PipelineSteps
         ]_vars

(***************************************************************************)
(* Comparisons created and processed over a store of none, one or two      *)
(* reports, one process_comparison call at a time.                         *)
(***************************************************************************)
CreateInit ==
    /\ docs \in {<<>>, <<ProcessedReport>>} \cup SampleStores
    /\ cmps = <<>>
    /\ tasks = <<>>
    /\ last = Ret(None, 0, None)
    /\ files = [n \in FileNames |-> None]

CreateSpec ==
    CreateInit /\ [][
           \/ CreateComparison(Env)
           \/ InFlight("compare") = {} /\ ProcessComparison
           \/ ComparisonSteps
         ]_vars

(***************************************************************************)
(* DocumentProcessor.process_document.                                     *)
(*                                                                         *)
(* A file is whether it exists, its size, the type its bytes are sniffed   *)
(* as, whether it can be read, whether its content is intact, the text in  *)
(* it (as runs of characters) and the SHA-256 of its bytes.                *)
(***************************************************************************)
\* validate_file as process_document sees it: the file is looked up first,
\* and an error of the file system is caught by validate_file itself
ValidateStoredFile(file) ==
    IF ~file.exists THEN [valid |-> FALSE, error |-> "File not found"]
    ELSE IF ~file.readable
    THEN [valid |-> FALSE, error |-> "Validation error"]
    ELSE IF ~ValidateFile(file).valid
    THEN [valid |-> FALSE, error |-> ValidateFile(file).error]
    ELSE [valid |-> TRUE, file_size |-> file.size, mime_type |-> file.sniffed]

\* extract_text: the extractor of the type raises ValueError on content it
\* cannot read; an exception is a record with the field raised
ExtractTextFrom(file, mime_type) ==
    IF mime_type \notin SupportedFormats THEN [raised |-> "Unsupported MIME type"]
    ELSE IF file.corrupt THEN [raised |-> "Failed to extract text"]
    ELSE [text |-> file.text]

\* len(raw_text.split())
WordCount(text) ==
    LET words == JoinWords(text, 1, <<>>)
    IN IF words = <<>> THEN 0
       ELSE 1 + Cardinality({i \in 1..Len(words) : words[i].ch = "SP"})

\* lines 118-145, an exception leaving them uncaught
ProcessDocumentUncaught(file, original_filename) ==
    LET validation == ValidateStoredFile(file)
    IN IF ~validation.valid THEN validation
       ELSE LET extracted == ExtractTextFrom(file, validation.mime_type)
            IN IF "raised" \in DOMAIN extracted THEN extracted
               ELSE [valid |-> TRUE,
                     file_size |-> validation.file_size,
                     mime_type |-> validation.mime_type,
                     file_hash |-> file.hash,
                     raw_text |-> extracted.text,
                     metadata |->
                        [original_filename |-> original_filename,
                         word_count |-> WordCount(extracted.text),
                         char_count |-> TextLen(extracted.text)]]

\* lines 115-149: the except clause turns every exception into a result
ProcessDocument(file, original_filename) ==
    LET result == ProcessDocumentUncaught(file, original_filename)
    IN IF "raised" \in DOMAIN result
       THEN [valid |-> FALSE, error |-> "Processing error"]
       ELSE result

SampleFiles ==
    [exists : BOOLEAN, readable : BOOLEAN, corrupt : BOOLEAN,
     size : {1, MaxFileSize, MaxFileSize + 1},
     sniffed : {"application/pdf", "text/plain", "application/x-dosexec"},
     text : {<<>>, <<Run("a", 3)>>,
             <<Run("a", 2), Run("SP", 2), Run("a", 1)>>,
             <<Run("LF", 1), Run("a", 1), Run("LF", 1)>>},
     hash : {"h1"}]

ProcessDocumentCall ==
    /\ FirstCall
    /\ \E file \in SampleFiles, name \in FileNames :
        last' = RetOf("process_document", 0, ProcessDocument(file, name), file)
    /\ UNCHANGED <<docs, cmps, tasks, files>>

DocumentSpec == Init /\ [][ProcessDocumentCall]_vars

(***************************************************************************)
(* Properties.                                                             *)
(***************************************************************************)
\* pipeline executions (initial processing or reprocessing) in flight on a row
PipelinesOn(id) ==
    {k \in 1..Len(tasks) :
        tasks[k].op \in {"process", "reprocess", "extract"} /\ tasks[k].id = id}

UniqueFingerprints ==
    \A i, j \in 1..Len(docs) : docs[i].hash = docs[j].hash => i = j

\* C1: with process_upload calls run one at a time, no two stored documents
\* share a content fingerprint, and an upload of bytes already stored
\* returns the stored document with that fingerprint
C1_OneDocumentPerFingerprint ==
    /\ UniqueFingerprints
    /\ (last.op = "upload" /\ last.res = "duplicate") =>
          (last.id \in 1..Len(docs) /\ docs[last.id].hash = last.arg)

\* a second upload of stored bytes has returned the stored document
C1_DuplicateReturned ==
    /\ last.op = "upload" /\ last.res = "duplicate"
    /\ \E i \in 1..Len(docs) : docs[i].hash = last.arg

DocumentMoves ==
    {<<"pending", "processing">>,
     <<"processing", "processed">>, <<"processing", "completed">>,
     <<"processing", "error">>, <<"processing", "failed">>,
     <<"error", "processing">>, <<"failed", "processing">>}

\* C2: a document is created Pending and its status only moves
\* Pending->Processing, Processing->Processed, Processing->Failed and
\* Failed->Processing; a Processed document never returns to Processing
C2_DocumentLifecycle ==
    [][\A i \in 1..Len(docs') :
          IF i > Len(docs)
          THEN IsPending(docs'[i].status)
          ELSE \/ docs'[i].status = docs[i].status
               \/ <<docs[i].status, docs'[i].status>> \in DocumentMoves]_vars

ComparisonMoves ==
    {<<"pending", "processing">>, <<"processing", "completed">>,
     <<"processing", "error">>}

\* C3: a comparison's status only moves Pending->Processing,
\* Processing->Completed and Processing->Failed, and a Completed or Failed
\* comparison is never changed again
C3_ComparisonLifecycle ==
    [][\A i \in 1..Len(cmps) :
          /\ \/ cmps'[i].status = cmps[i].status
             \/ <<cmps[i].status, cmps'[i].status>> \in ComparisonMoves
          /\ cmps[i].status \in {"completed", "error"} => cmps'[i] = cmps[i]]_vars

BothProcessed(src, tgt) ==
    /\ src \in 1..Len(docs) /\ tgt \in 1..Len(docs)
    /\ IsProcessed(docs[src].status) /\ IsProcessed(docs[tgt].status)

\* C4: a comparison is created, and its holistic comparison is started, only
\* while both of its documents are Processed
C4_ProcessedPrecondition ==
    [][/\ Len(cmps') > Len(cmps) =>
            BothProcessed(cmps'[Len(cmps')].source, cmps'[Len(cmps')].target)
       /\ \A k \in 1..Len(tasks) :
            (/\ Len(tasks') = Len(tasks)
             /\ tasks[k].op = "compare" /\ tasks[k].pc = "check"
             /\ tasks'[k].pc = "holistic")
            => BothProcessed(cmps[tasks[k].id].source, cmps[tasks[k].id].target)]_vars

\* C5: no comparison is Completed with its holistic fields empty: a failed
\* holistic call leaves the comparison Failed
C5_HolisticFailureFails ==
    \A i \in 1..Len(cmps) :
        cmps[i].status = "completed" => cmps[i].holistic = "fields"

\* C6: a comparison completed while either document has no embedding stores
\* an unset similarity score, not the number 0
C6_MissingEmbeddingUnset ==
    [][\A k \in 1..Len(tasks) :
          (/\ tasks[k].op = "compare" /\ tasks[k].pc = "sections"
           /\ ~(HasEmb(tasks[k].srcEmb) /\ HasEmb(tasks[k].tgtEmb))
           /\ tasks' = Remove(tasks, k)
           /\ cmps'[tasks[k].id] # cmps[tasks[k].id]
           /\ cmps'[tasks[k].id].status = "completed")
          => cmps'[tasks[k].id].similarity_score = NoScore]_vars

C8_ReprocessEndsTerminal ==
    (/\ last.op = "reprocess" /\ IsFailed(last.arg)
     /\ last.res \in {"success", "error"}
     /\ PipelinesOn(last.id) = {})
    => /\ IsProcessed(docs[last.id].status) \/ IsFailed(docs[last.id].status)
       /\ last.res = "success" => IsProcessed(docs[last.id].status)

\* C9: at most one pipeline execution is in flight for a document id
C9_SingleFlight ==
    \A id \in DocIds : Cardinality(PipelinesOn(id)) <= 1

\* C10: once concurrent uploads of the same bytes have finished, one
\* document with that fingerprint is stored
C10_ConcurrentUploadsDeduplicated ==
    Uploading = {} => UniqueFingerprints

\* C11: a comparison requested with its source document Pending and its
\* target document Processed creates no Comparison row, and no row of such a
\* pair enters Processing.
C11_PendingSourceRejected ==
    [][/\ Len(cmps') > Len(cmps) =>
            ~(/\ IsPending(docs[cmps'[Len(cmps')].source].status)
              /\ IsProcessed(docs[cmps'[Len(cmps')].target].status))
       /\ \A i \in 1..Len(cmps) :
            (cmps'[i].status = "processing" /\ cmps[i].status # "processing") =>
                ~(/\ IsPending(docs[cmps[i].source].status)
                  /\ IsProcessed(docs[cmps[i].target].status))]_vars

\* a text has no line that names the section
SectionMissing(text, name) ==
    \A i \in 1..Len(text) : ~NamesSection(text[i], name)

\* C12: the section map has a key for a section only if _extract_section
\* gave a non-empty excerpt for it in the source and in the target text; a
\* section missing from either text has no key, no key maps to a null or
\* empty placeholder, and every key is a canonical section name.
C12_SectionMapKeys ==
    last.op = "analyze_sections" =>
        /\ DOMAIN last.res \subseteq Sections
        /\ \A name \in DOMAIN last.res :
            /\ HasSection(ExtractSection(last.arg[1], name))
            /\ HasSection(ExtractSection(last.arg[2], name))
            /\ last.res[name] \in {"dict", "err"}
        /\ \A name \in Sections :
            (SectionMissing(last.arg[1], name) \/ SectionMissing(last.arg[2], name))
                => name \notin DOMAIN last.res

\* a map with a key for one section while another section, present in the
\* source text only, has none
C12_PartialSectionMap ==
    /\ last.op = "analyze_sections"
    /\ DOMAIN last.res # {}
    /\ \E name \in Sections \ DOMAIN last.res :
        /\ ~SectionMissing(last.arg[1], name)
        /\ SectionMissing(last.arg[2], name)

\* C13: when the sub-comparison of a section fails, the section map has no
\* entry for that section and keeps an entry for every other section found
\* in both texts (the comparison itself goes on to Completed).
C13_FailedSectionOmitted ==
    last.op = "analyze_sections" =>
        /\ \A name \in last.arg[3] : name \notin DOMAIN last.res
        /\ \A name \in Sections \ last.arg[3] :
            (/\ HasSection(ExtractSection(last.arg[1], name))
             /\ HasSection(ExtractSection(last.arg[2], name)))
                => name \in DOMAIN last.res

\* C14: the excerpt _extract_section returns has at most 50 lines.
C14_ExcerptWithinCap ==
    last.op = "extract_section" => Len(last.res.lines) <= SectionCap

\* C15: the excerpt is made of lines that follow the first line naming the
\* section, and none of its lines carries the name of another canonical
\* section.
C15_ExcerptStopsAtNextHeader ==
    last.op = "extract_section" =>
        LET text == last.arg[1]
            name == last.arg[2]
            excerpt == last.res.lines
        IN /\ excerpt # <<>> =>
                \E first \in 1..Len(text) :
                    /\ NamesSection(text[first], name)
                    /\ \A i \in 1..(first - 1) : ~NamesSection(text[i], name)
                    /\ \A j \in 1..Len(excerpt) :
                        \E i \in (first + 1)..Len(text) :
                            text[i].words = excerpt[j].words
           /\ \A j \in 1..Len(excerpt) :
                \A other \in Sections \ {name} : ~NamesSection(excerpt[j], other)

\* C16: the materiality score is the sum of the weights of the indicator
\* categories found (material weakness 3, significant deficiency 2,
\* compliance 2); the level is High from 5, Medium from 3, Low below, always
\* one of the three, and both depend on the comparison output alone.
C16_MaterialityFromScore ==
    last.op = "assess_materiality" =>
        LET score == last.res.materiality_score
            level == last.res.materiality_level
        IN /\ score = (IF Mentions(last.arg, "material_weaknesses") THEN 3 ELSE 0)
                      + (IF Mentions(last.arg, "significant_deficiencies") THEN 2 ELSE 0)
                      + (IF Mentions(last.arg, "compliance") THEN 2 ELSE 0)
           /\ level \in {"Low", "Medium", "High"}
           /\ level = "High" <=> score >= 5
           /\ level = "Medium" <=> (score >= 3 /\ score < 5)
           /\ level = "Low" <=> score < 3
           /\ \A now \in 1..MaxClock :
                /\ AssessMateriality(last.arg, now).materiality_score = score
                /\ AssessMateriality(last.arg, now).materiality_level = level

\* an output that scores exactly 5 and is rated High
C16_ScoreFiveIsHigh ==
    /\ last.op = "assess_materiality"
    /\ last.res.materiality_score = 5
    /\ last.res.materiality_level = "High"

\* the three indicator classes as phrases of the comparison output
HasMaterialWeakness(phrases) ==
    phrases \cap {"material weakness", "material_weaknesses"} # {}

HasSignificantDeficiency(phrases) ==
    phrases \cap {"significant deficiency", "significant_deficiencies"} # {}

HasCompliance(phrases) == phrases \cap {"compliance", "compliance_gaps"} # {}

\* C17: output with a "material weakness" phrase and a "compliance" phrase
\* and no "significant deficiency" phrase scores 5 and is rated High; output
\* with none of the three classes scores 0 and is rated Low.
C17_MaterialityExamples ==
    last.op = "assess_materiality" =>
        /\ (/\ HasMaterialWeakness(last.arg)
            /\ HasCompliance(last.arg)
            /\ ~HasSignificantDeficiency(last.arg)) =>
                /\ last.res.materiality_score = 5
                /\ last.res.materiality_level = "High"
        /\ (/\ ~HasMaterialWeakness(last.arg)
            /\ ~HasCompliance(last.arg)
            /\ ~HasSignificantDeficiency(last.arg)) =>
                /\ last.res.materiality_score = 0
                /\ last.res.materiality_level = "Low"

\* C18: calculate_similarity returns (cos + 1) / 2: 1.0 for [1,0] against
\* [1,0] (and any vector against itself), 0.0 for [1,0] against [-1,0] (and
\* any vector against its opposite), and a value in [0,1] for every pair of
\* embeddings (scores are in thousandths).
C18_SimilarityBounds ==
    last.op = "calculate_similarity" =>
        LET a == last.arg[1]
            b == last.arg[2]
        IN /\ last.res >= 0 /\ last.res <= 1000
           /\ a = b => last.res = 1000
           /\ (a[1] = -b[1] /\ a[2] = -b[2]) => last.res = 0
           /\ Dot(a, b) = 0 => last.res = 500
           /\ (Dot(a, b) > 0) => last.res >= 500
           /\ (Dot(a, b) < 0) => last.res <= 500

\* two embeddings that are neither parallel nor orthogonal
C18_ObliqueVectors ==
    /\ last.op = "calculate_similarity"
    /\ last.res \notin {0, 500, 1000}

\* C19: the similarity score stored for a comparison is the same whichever
\* of the two documents is the source, also when an embedding is absent.
C19_SimilaritySymmetric ==
    last.op = "similarity_score" =>
        last.res = SimilarityOf(last.arg[2], last.arg[1])

\* two different embeddings at an angle, scored
C19_DistinctEmbeddingsScored ==
    /\ last.op = "similarity_score"
    /\ HasEmb(last.arg[1]) /\ HasEmb(last.arg[2])
    /\ last.arg[1] # last.arg[2]
    /\ last.res \notin {Score(0), Score(500), Score(1000)}

\* the error message a status query finds on a row: the column of that name,
\* which neither AuditReport nor Comparison has
ErrorMessageOf(row) ==
    IF "error_message" \in DOMAIN row THEN row.error_message ELSE None

\* C20: every Document and every Comparison in the Failed state carries a
\* persisted error message.
C20_FailureMessagePersisted ==
    /\ \A i \in 1..Len(docs) :
        IsFailed(docs[i].status) => ErrorMessageOf(docs[i]) # None
    /\ \A i \in 1..Len(cmps) :
        cmps[i].status = "error" => ErrorMessageOf(cmps[i]) # None

\* C21: when validation or text extraction fails for a submitted document,
\* process_uploaded_report starts no embedding or language-model step and
\* persists a Document with status Failed for that submission.
C21_RejectedSubmissionRecorded ==
    [][(last'.op = "process" /\ last'.res = "invalid" /\ last' # last) =>
          /\ tasks' = tasks
          /\ Len(docs') = Len(docs) + 1
          /\ IsFailed(docs'[Len(docs')].status)]_vars

\* C22: in process_uploaded_report a failure of extract_key_findings,
\* detect_material_weaknesses or categorize_risks (an error answer or JSON of
\* an unexpected shape) stays in that step's field: the call goes on through
\* the remaining steps and, the database being healthy, ends with the
\* Document Processed, the embedding and the findings stored as obtained.
C22_StepFailureKeepsProcessed ==
    [][\A k \in 1..Len(tasks) :
        tasks[k].op = "process" =>
          /\ (tasks[k].pc \in {"findings", "weaknesses"} =>
                tasks' # Remove(tasks, k))
          /\ (tasks[k].pc = "risks" /\ tasks' = Remove(tasks, k) =>
                LET d == docs'[tasks[k].id]
                IN /\ IsProcessed(d.status)
                   /\ d.embeddings = tasks[k].emb
                   /\ d.key_findings = tasks[k].findings)]_vars

\* C23: a failed embedding call does not end process_uploaded_report or
\* reprocess_report: the call goes on to finding extraction and the Document
\* is not put in Failed by it.
C23_EmbeddingFailureTolerated ==
    [][\A k \in 1..Len(tasks) :
        (tasks[k].op \in {"process", "reprocess"} /\ tasks[k].pc = "embed") =>
          /\ tasks' # Remove(tasks, k)
          /\ ~IsFailed(docs'[tasks[k].id].status)]_vars

\* C24: every process_uploaded_report call that stored the extracted text
\* leaves compliance scores on the Document when it returns, whatever the
\* embedding service and the language model answered.
C24_ComplianceScoresStored ==
    [][\A k \in 1..Len(tasks) :
        (/\ tasks[k].op = "process"
         /\ tasks' = Remove(tasks, k)
         /\ HasText(docs[tasks[k].id].raw_text)) =>
            docs'[tasks[k].id].compliance_scores # None]_vars

\* C25 (as stated): _assess_compliance_scores returns an entry for exactly
\* the four frameworks and each score equals min(keyword occurrences / word
\* count x 1000, 100), 0 for a text without words.
C25_ScoreIsExactRatio ==
    last.op = "assess_compliance_scores" =>
        /\ DOMAIN last.res = Frameworks
        /\ \A framework \in Frameworks :
            LET score == last.res[framework].score
                count == KeywordCount(last.arg, framework)
                words == Len(last.arg)
            IN IF words = 0 THEN score = 0
               ELSE IF count * 1000 >= 100 * words THEN score = 10000
               ELSE score * words = count * 100000

\* C25: _assess_compliance_scores returns an entry for exactly the four
\* frameworks SOX, COSO, PCAOB and SEC; each score is min(keyword occurrences
\* / word count x 1000, 100) rounded to two decimals (within half a hundredth
\* of the ratio), 0 for a text without words; every score lies in [0,100] and
\* does not depend on when the text is assessed.
C25_ComplianceScores ==
    last.op = "assess_compliance_scores" =>
        /\ DOMAIN last.res = {"SOX", "COSO", "PCAOB", "SEC"}
        /\ \A framework \in DOMAIN last.res :
            LET score == last.res[framework].score
                count == KeywordCount(last.arg, framework)
                words == Len(last.arg)
            IN /\ score >= 0 /\ score <= 10000
               /\ words = 0 => score = 0
               /\ (words > 0 /\ count * 1000 >= 100 * words) => score = 10000
               /\ (words > 0 /\ count * 1000 < 100 * words) =>
                    /\ 2 * (score * words - count * 100000) <= words
                    /\ 2 * (count * 100000 - score * words) <= words
               /\ \A now \in 1..MaxClock :
                    AssessComplianceScores(last.arg, now)[framework].score = score

\* a text scored below the cap for two frameworks at once, one of the scores
\* rounded
C25_RoundedScore ==
    /\ last.op = "assess_compliance_scores"
    /\ \E f \in Frameworks, g \in Frameworks :
        /\ f # g
        /\ last.res[f].score \in 1..9999
        /\ last.res[g].score \in 1..9999
        /\ last.res[f].score * Len(last.arg) # KeywordCount(last.arg, f) * 100000

\* C27: upload validation goes by the type sniffed from the bytes: an upload
\* is accepted exactly when its sniffed type is in the allow-list and it is
\* at most 50MB, whatever type its client declares and whatever its file
\* name ends in; a file of exactly 50MB passes.
C27_ValidationByContent ==
    last.op \in {"validate_file", "_validate_file", "upload_document"} =>
        (last.res <=> (/\ last.arg.sniffed \in SupportedFormats
                       /\ last.arg.size <= MaxFileSize))

\* C26: a document pipeline or a process_comparison call cancelled while it
\* waits for a collaborator leaves its record Failed, not Processing.
C26_CancelledEndsFailed ==
    [][\A k \in 1..Len(tasks) :
        (/\ Suspended(tasks[k])
         /\ tasks' = Remove(tasks, k)
         /\ last'.res = "cancelled") =>
            IF tasks[k].op = "compare"
            THEN cmps'[tasks[k].id].status = "error"
            ELSE IsFailed(docs'[tasks[k].id].status)]_vars

\* C28: a Comparison committed with status Completed carries its similarity
\* score, the holistic fields, the section map, the materiality assessment
\* and the completion timestamp: they are written by the same commit.
C28_CompletedIsWhole ==
    \A i \in 1..Len(cmps) :
        cmps[i].status = "completed" =>
            /\ cmps[i].similarity_score # NoScore
            /\ cmps[i].holistic # None
            /\ cmps[i].section_comparisons # None
            /\ cmps[i].materiality_assessment # None
            /\ cmps[i].completed_at

\* a comparison completed by one call while another call on it is still in
\* flight
C28_CompletedObserved ==
    /\ cmps[1].status = "completed"
    /\ last.op = "compare" /\ last.res = "completed"
    /\ tasks # <<>>

\* C29: the similarity score a process_comparison call stores is the one of
\* the embeddings read at its precondition check, whatever a reprocess of
\* either Document has stored since.
C29_ScoreFromCheckedSnapshot ==
    [][\A k \in 1..Len(tasks) :
        (/\ tasks[k].op = "compare" /\ tasks[k].pc \in {"holistic", "sections"}
         /\ tasks' = Remove(tasks, k)
         /\ last'.res \in {"completed", "error"}
         /\ cmps' # cmps) =>
            LET c == cmps'[tasks[k].id]
                checked == SimilarityOf(tasks[k].srcEmb, tasks[k].tgtEmb)
            IN /\ c.status = "completed" => c.similarity_score = checked
               /\ (c.status = "error" /\ tasks[k].pc = "holistic") =>
                    c.similarity_score = checked]_vars

\* a comparison completed with the score of embeddings that a reprocess has
\* replaced in the meantime
C29_ReprocessedMeanwhile ==
    /\ last.op = "compare" /\ last.res = "completed"
    /\ cmps[1].status = "completed"
    /\ HasEmb(docs[1].embeddings) /\ HasEmb(docs[2].embeddings)
    /\ cmps[1].similarity_score #
         SimilarityOf(docs[1].embeddings, docs[2].embeddings)

\* C30: a step of a pipeline run (of process_uploaded_report or of an
\* upload's background task) or of a reprocess for Document X changes X's
\* record only, or adds it: every other Document and every Comparison stay
\* as they were.
C30_PipelineFrame ==
    [][LET \* the call that takes the step: it starts, moves on, or ends
           Acting(k) ==
               \/ Len(tasks') = Len(tasks) + 1 /\ k = Len(tasks')
               \/ Len(tasks') = Len(tasks) /\ k <= Len(tasks)
                  /\ tasks'[k] # tasks[k]
               \/ k <= Len(tasks) /\ tasks' = Remove(tasks, k)
       IN \A k \in 1..MaxTasks :
        Acting(k) =>
            LET f == IF k <= Len(tasks) THEN tasks[k] ELSE tasks'[k]
            IN f.op \in {"process", "reprocess", "upload", "extract"} =>
                /\ cmps' = cmps
                /\ \A i \in 1..Len(docs) : i # f.id => docs'[i] = docs[i]
                /\ Len(docs') \in {Len(docs), Len(docs) + 1}]_vars

\* an upload's pipeline has ended with the Document processed while a
\* reprocess of another Document is past its embedding step
C30_InterleavedPipelines ==
    /\ last.op = "process" /\ last.res = "success"
    /\ \E k \in 1..Len(tasks) :
        /\ tasks[k].op = "reprocess"
        /\ tasks[k].id # last.id
        /\ tasks[k].pc # "embed"
    /\ IsProcessed(docs[last.id].status)

\* C31: process_uploaded_report stores no second Document for a fingerprint
\* already stored: a run on bytes whose fingerprint a stored Document has
\* adds no row (and so has no embedding or language-model step of its own).
C31_ReportFingerprintStoredOnce ==
    [][Len(docs') > Len(docs) =>
          \A i \in 1..Len(docs) : docs[i].hash # docs'[Len(docs')].hash]_vars

\* C32: a process_upload call that finds a stored Document with the same
\* fingerprint returns that Document and does nothing else: no file is
\* written, no record added, no field of a stored Document changed and no
\* background pipeline started.
C32_DuplicateUploadFrame ==
    [][(last' # last /\ last'.op = "upload" /\ last'.res = "duplicate") =>
          /\ UNCHANGED <<docs, files, tasks, cmps>>
          /\ last'.id \in 1..Len(docs)
          /\ docs[last'.id].hash = last'.arg]_vars

\* a duplicate upload has returned a Document whose pipeline has ended, while
\* a file is on disk
C32_DuplicateOfStoredDocument ==
    /\ last.op = "upload" /\ last.res = "duplicate"
    /\ docs[last.id].status \in {"completed", "failed"}
    /\ PipelinesOn(last.id) = {}
    /\ files[docs[last.id].file_name] # None

\* C33: in the text _clean_text returns every run of whitespace is a single
\* space, there is no control character, and the text is at most 8000
\* characters followed by the marker '...', the marker being there exactly
\* when the collapsed text was longer than 8000 characters.
C33_CleanTextNormalised ==
    last.op = "clean_text" =>
        LET out == last.res
            HasMarker(runs) == runs # <<>> /\ runs[Len(runs)] = TruncationMarker
            body == IF HasMarker(out) THEN SubSeq(out, 1, Len(out) - 1) ELSE out
            collapsed == RemoveNul(JoinWords(last.arg, 1, <<>>))
        IN /\ \A i \in 1..Len(out) :
                /\ out[i].ch \in Whitespace => (out[i].ch = "SP" /\ out[i].n = 1)
                /\ (i > 1 /\ out[i].ch = "SP") => out[i - 1].ch # "SP"
           /\ \A i \in 1..Len(out) : out[i].ch \notin {"LF", "NUL", "BEL"}
           /\ TextLen(body) <= CleanCap
           /\ HasMarker(out) <=> TextLen(collapsed) > CleanCap

\* C34: for every Document process_upload has stored, the file at its
\* file_path holds the bytes of its content_hash, after any sequence of
\* uploads.
C34_FileMatchesHash ==
    \A i \in 1..Len(docs) :
        docs[i].file_name # None => files[docs[i].file_name] = docs[i].hash

\* C35: an upload made for company C that the duplicate check would answer
\* with a stored Document is answered with a Document of company C.
C35_DuplicateWithinCompany ==
    \A company \in UploadEnv.companies, hash \in UploadEnv.hashes :
        \A i \in CheckDuplicate(hash) : docs[i].company = company

\* C36: a process_comparison call on two Documents that are both Processed
\* passes its readiness check and goes on to the holistic comparison,
\* whatever text was extracted from them.
C36_ProcessedIsReady ==
    [][\A k \in 1..Len(tasks) :
        (/\ tasks[k].op = "compare" /\ tasks[k].pc = "check"
         /\ BothProcessed(cmps[tasks[k].id].source, cmps[tasks[k].id].target))
        => tasks' # Remove(tasks, k)]_vars

\* C37: a process_comparison call that ends in its error handler leaves the
\* Comparison Failed with none of the attempt's results: apart from the
\* status the row is as it was before the handler ran.
C37_FailedKeepsNoResults ==
    [][\A k \in 1..Len(tasks) :
        (/\ tasks[k].op = "compare"
         /\ tasks' = Remove(tasks, k)
         /\ last'.op = "compare" /\ last'.res = "error")
        => cmps'[tasks[k].id] =
              [cmps[tasks[k].id] EXCEPT !.status = "error"]]_vars

\* C38: every Document that process_uploaded_report and reprocess_report
\* leave with status Processed has its raw text, an embedding vector,
\* compliance scores, structured data and a processed_at timestamp.
C38_ProcessedIsComplete ==
    \A i \in 1..Len(docs) :
        IsProcessed(docs[i].status) =>
            /\ docs[i].raw_text # None
            /\ HasEmb(docs[i].embeddings)
            /\ docs[i].compliance_scores # None
            /\ docs[i].structured_data # NoJson
            /\ docs[i].processed_at

\* a Document processed again by a reprocess that succeeded
C38_ReprocessedDocument ==
    /\ last.op = "reprocess" /\ last.res = "success"
    /\ IsProcessed(docs[last.id].status)

C40_ProcessDocumentResult ==
    last.op = "process_document" =>
        LET file == last.arg
            res == last.res
            bad == \/ ~file.exists \/ ~file.readable \/ file.corrupt
                   \/ file.size > MaxFileSize
                   \/ file.sniffed \notin SupportedFormats
        IN /\ "raised" \notin DOMAIN res
           /\ res.valid <=> ~bad
           /\ ~res.valid =>
                /\ DOMAIN res = {"valid", "error"}
                /\ res.error # None
           /\ res.valid =>
                /\ res.file_hash = file.hash
                /\ res.raw_text = file.text
                /\ res.metadata.char_count = TextLen(res.raw_text)
                /\ res.metadata.word_count = WordCount(res.raw_text)
                /\ (res.raw_text = <<>> => res.metadata.word_count = 0)

\* a supported, readable file whose extraction failed
C40_ExtractionFailed ==
    /\ last.op = "process_document"
    /\ last.arg.exists /\ last.arg.readable /\ last.arg.corrupt
    /\ last.arg.size = MaxFileSize
    /\ last.arg.sniffed \in SupportedFormats
    /\ ~last.res.valid
====
